---- MODULE Spec2Model ----
(***************************************************************************)
(* Voting aggregation of openjury (src/src/openjury/voting.py).            *)
(*                                                                         *)
(* A caller builds a sequence of JurorEvaluation objects and hands it to   *)
(* VotingAggregator.aggregate once per built-in method, as                 *)
(* tests/test_voting.py::test_aggregate_with_all_methods does.  Such a    *)
(* pass is a "run" of one interpreter.  Spec follows one run; SpecRerun    *)
(* follows two, so that the results of two calls can be compared.          *)
(* SpecCustom follows a caller of the custom-strategy registry and of the  *)
(* custom method, SpecDispatch a caller of aggregate over every method     *)
(* selector and of calculate_confidence (src/src/openjury/output_format.py)*)
(* on the results.  SpecVerdict follows verdict assembly (create_verdict)  *)
(* on results of aggregate and on results built by hand, SpecThreads a     *)
(* custom_vote running statement by statement next to a thread that        *)
(* changes the registry, and SpecEngine one OpenJury.evaluate call         *)
(* (src/src/openjury/jury_engine.py, juror.py): the jurors' retry loops,   *)
(* the collection of their evaluations, the aggregation and the verdict.   *)
(*                                                                         *)
(* Numbers.  Scores and weights are small integers, for which the float    *)
(* sums and products of the code are exact; a quotient a / b is kept as    *)
(* the reduced fraction, so two quotients are equal (ordered) in the model *)
(* exactly when the floats are.                                            *)
(*                                                                         *)
(* Enumeration order.  Every strategy collects the response ids in a       *)
(* Python set and iterates list(set).  The order of that list is not       *)
(* defined by the language: for str keys it depends on the interpreter's   *)
(* hash seed (PYTHONHASHSEED, random by default) and, when two keys        *)
(* collide in the hash table, on the order of insertion.  Within one       *)
(* interpreter the same insertions give the same list.  The model draws    *)
(* a hash behaviour per run (hashSeed) and derives the list from it.       *)
(***************************************************************************)
EXTENDS Integers, Sequences, FiniteSets, TLC

MaxScore == 1
MaxWeight == 2
\* the longest sequence of registry and dispatcher calls followed
MaxCalls == 4

\* the largest vote count and the largest score of a result built by hand
MaxVotes == 3
MaxTop == 8
\* the largest max_retries of a jury's configuration
MaxRetries == 2

VARIABLES evaluations, runs, custom_functions, calls,
          inflight, jury, juror_calls, verdict

\* the state of the evaluation engine and of its threads
engineVars == <<inflight, jury, juror_calls, verdict>>

vars == <<evaluations, runs, custom_functions, calls,
          inflight, jury, juror_calls, verdict>>

----------------------------------------------------------------------------
(* Values *)

None == [none |-> TRUE]

\* config.VotingMethod
MAJORITY == "majority"
AVERAGE == "average"
WEIGHTED == "weighted"
RANKED == "ranked"
CONSENSUS == "consensus"
CUSTOM == "custom"

BuiltinMethods == {MAJORITY, AVERAGE, WEIGHTED, RANKED, CONSENSUS}

ResponseIds == {"resp1", "resp2"}
\* the order in which a response_scores dict lists its keys (candidate order)
CandidateOrder == <<"resp1", "resp2">>
Criteria == {"factuality"}
\* the jurors of the jury, in the order of config.jurors
JurorNames == <<"Juror1", "Juror2">>
ScoreValues == (0 - 1)..MaxScore
Weights == 0..MaxWeight

Range(s) == {s[i] : i \in 1..Len(s)}

\* criterion -> score maps a juror can give for one response
CriterionMaps == UNION {[cs -> ScoreValues] : cs \in SUBSET Criteria}
\* response id -> criterion map, for the responses the juror scored
ResponseScores == UNION {[rs -> CriterionMaps] : rs \in SUBSET ResponseIds}

\* class JurorEvaluation
JurorEvaluation(juror_name, response_scores, juror_weight) ==
  [juror_name |-> juror_name,
   response_scores |-> response_scores,
   juror_weight |-> juror_weight]

\* class VotingResult: fields not passed to the constructor default to None
VotingResult(winner, method, field, scores) ==
  [winner |-> winner,
   method |-> method,
   vote_counts |-> IF field = "vote_counts" THEN scores ELSE None,
   average_scores |-> IF field = "average_scores" THEN scores ELSE None,
   weighted_scores |-> IF field = "weighted_scores" THEN scores ELSE None,
   ranked_scores |-> IF field = "ranked_scores" THEN scores ELSE None,
   consensus_scores |-> IF field = "consensus_scores" THEN scores ELSE None,
   custom_scores |-> None,
   custom_data |-> None]

\* outcome of a call: a returned value or a raised ValueError
Return(value) == [ok |-> TRUE, result |-> value]
Raise(message) == [ok |-> FALSE, error |-> message]

----------------------------------------------------------------------------
(* Arithmetic *)

Abs(n) == IF n < 0 THEN 0 - n ELSE n

RECURSIVE GCD(_, _)
GCD(a, b) == IF b = 0 THEN a ELSE GCD(b, a % b)

\* n / d for d > 0, as a reduced fraction
Div(n, d) ==
  LET g == GCD(Abs(n), d)
  IN  [num |-> n \div g, den |-> d \div g]

\* a > b on quotients
RatGt(a, b) == a.num * b.den > b.num * a.den

IntGt(a, b) == a > b

\* sum(d.values())
RECURSIVE SumValues(_)
SumValues(d) ==
  IF DOMAIN d = {} THEN 0
  ELSE LET k == CHOOSE k \in DOMAIN d : TRUE
       IN  d[k] + SumValues([j \in DOMAIN d \ {k} |-> d[j]])

\* max(d.items(), key=lambda x: x[1])[0] for a dict d of integers whose keys
\* are listed in the order `keys`: the first key, in that order, whose value
\* is largest
PyMax(keys, d) ==
  LET RECURSIVE scan(_, _)
      scan(best, i) ==
        IF i > Len(keys) THEN best
        ELSE scan(IF IntGt(d[keys[i]], d[best]) THEN keys[i] ELSE best, i + 1)
  IN  scan(keys[1], 2)

----------------------------------------------------------------------------
(* Enumeration of the response ids *)

Orderings(S) ==
  {p \in [1..Cardinality(S) -> S] : \A x \in S : \E i \in DOMAIN p : p[i] = x}

\* the hash behaviours of an interpreter on the response ids: the keys fall
\* in distinct slots, enumerated in slot order ("slots", any order of the
\* ids), or they collide and the later insertion is probed to a slot after
\* ("probe_after") or before ("probe_before") the earlier one
HashSeeds ==
  [kind : {"slots"}, rank : Orderings(ResponseIds)]
    \cup [kind : {"probe_after", "probe_before"}, rank : {CandidateOrder}]

\* the ids a juror's reply can score: the candidates and an id that is no
\* candidate, in the order in which a reply lists them
ReplyIds == ResponseIds \cup {"resp3"}
KeyOrder == CandidateOrder \o <<"resp3">>

\* the hash behaviours of an interpreter on the ids of the replies
ReplyHashSeeds ==
  [kind : {"slots"}, rank : Orderings(ReplyIds)]
    \cup [kind : {"probe_after", "probe_before"}, rank : {KeyOrder}]

\* d.keys() of a response_scores dict
Keys(response_scores) ==
  SelectSeq(KeyOrder, LAMBDA r : r \in DOMAIN response_scores)

Reverse(s) == [i \in 1..Len(s) |-> s[Len(s) + 1 - i]]

\* the distinct keys in the order set.update() first inserts them
RECURSIVE InsertionOrder(_)
InsertionOrder(evals) ==
  IF evals = <<>> THEN <<>>
  ELSE LET before == InsertionOrder(SubSeq(evals, 1, Len(evals) - 1))
           keys == Keys(evals[Len(evals)].response_scores)
       IN  before \o SelectSeq(keys, LAMBDA r : r \notin Range(before))

\* variant: the list holds every candidate id, scored or not
ListOfCandidates(seed, evals) ==
  CASE seed.kind = "slots" -> seed.rank
    [] seed.kind = "probe_after" -> CandidateOrder
    [] seed.kind = "probe_before" -> Reverse(CandidateOrder)

\* response_ids = set(); response_ids.update(...); list(response_ids)
ListOfSet(seed, evals) ==
  LET inserted == InsertionOrder(evals)
  IN  CASE seed.kind = "slots" ->
             SelectSeq(seed.rank, LAMBDA r : r \in Range(inserted))
        [] seed.kind = "probe_after" -> inserted
        [] seed.kind = "probe_before" -> Reverse(inserted)

----------------------------------------------------------------------------
(* Built-in strategies *)

\* variant: a response the juror left out ranks below every score
TotalScoreAbsentLowest(evaluation, response_id) ==
  IF response_id \in DOMAIN evaluation.response_scores
  THEN SumValues(evaluation.response_scores[response_id])
  ELSE 0 - (MaxScore + 1)

\* the juror's total for a response: the sum of its criterion scores, 0 when
\* the juror did not score it
TotalScore(evaluation, response_id) ==
  IF response_id \in DOMAIN evaluation.response_scores
  THEN SumValues(evaluation.response_scores[response_id])
  ELSE 0

\* variant: Counter(set(juror_votes)), every voted response counted once
CounterOfSet(votes) ==
  LET RECURSIVE firsts(_)
      firsts(n) ==
        IF n = 0 THEN <<>>
        ELSE LET before == firsts(n - 1)
             IN  IF votes[n] \in Range(before) THEN before
                 ELSE Append(before, votes[n])
  IN  [keys |-> firsts(Len(votes)), counts |-> [r \in Range(votes) |-> 1]]

\* Counter(juror_votes): keys in order of first occurrence, with their counts
Counter(votes) ==
  LET RECURSIVE firsts(_)
      firsts(n) ==
        IF n = 0 THEN <<>>
        ELSE LET before == firsts(n - 1)
             IN  IF votes[n] \in Range(before) THEN before
                 ELSE Append(before, votes[n])
  IN  [keys |-> firsts(Len(votes)),
       counts |-> [r \in Range(votes) |->
                    Cardinality({i \in 1..Len(votes) : votes[i] = r})]]

\* variant: the juror votes among the responses it scored only
JurorVoteScoredOnly(evaluation, response_ids) ==
  LET scored ==
        SelectSeq(response_ids, LAMBDA r : r \in DOMAIN evaluation.response_scores)
  IN  IF scored = <<>> THEN response_ids[1]
      ELSE PyMax(scored,
                 [r \in Range(scored) |->
                   SumValues(evaluation.response_scores[r])])

\* the vote of one juror: the first response, in list order, with the
\* largest total
JurorVote(evaluation, response_ids) ==
  PyMax(response_ids,
        [r \in Range(response_ids) |-> TotalScore(evaluation, r)])

\* variant: max(scores.items())[0], the key= argument forgotten, compares
\* the (id, score) pairs and so returns the largest id
ArgMaxNoKey(response_ids, scores) ==
  LET present == SelectSeq(CandidateOrder, LAMBDA r : r \in Range(response_ids))
  IN  present[Len(present)]

\* max(scores.items(), key=lambda x: x[1])[0] over a score map filled in the
\* order of response_ids
ArgMaxScore(response_ids, scores) ==
  LET RECURSIVE scan(_, _)
      scan(best, i) ==
        IF i > Len(response_ids) THEN best
        ELSE scan(IF RatGt(scores[response_ids[i]], scores[best])
                  THEN response_ids[i] ELSE best,
                  i + 1)
  IN  scan(response_ids[1], 2)

majority_vote(evals, seed) ==
  IF evals = <<>> THEN Raise("No evaluations provided")
  ELSE LET response_ids == ListOfSet(seed, evals)
       IN  IF response_ids = <<>>
           THEN Raise("No responses found in evaluations")
           ELSE LET juror_votes ==
                      [i \in 1..Len(evals) |-> JurorVote(evals[i], response_ids)]
                    vote_counts == Counter(juror_votes)
                    \* most_common(1): first key with the largest count
                    winner == PyMax(vote_counts.keys, vote_counts.counts)
                IN  Return(VotingResult(winner, MAJORITY, "vote_counts",
                                        vote_counts.counts))

\* sum of a sequence of integers, left to right
RECURSIVE SumSeq(_)
SumSeq(s) == IF s = <<>> THEN 0 ELSE SumSeq(SubSeq(s, 1, Len(s) - 1)) + s[Len(s)]

\* statistics.mean(all_scores)
Mean(all_scores) == Div(SumSeq(all_scores), Len(all_scores))

\* variant: a juror that did not score the response is left out of the mean
MeanOverScorers(evals, response_ids) ==
  [r \in Range(response_ids) |->
    LET scorers == SelectSeq(evals, LAMBDA e : r \in DOMAIN e.response_scores)
    IN  Mean([i \in 1..Len(scorers) |-> TotalScore(scorers[i], r)])]

\* the loop shared by average_vote, ranked_vote and consensus_vote
MeanScores(evals, response_ids) ==
  [r \in Range(response_ids) |->
    Mean([i \in 1..Len(evals) |-> TotalScore(evals[i], r)])]

average_vote(evals, seed) ==
  IF evals = <<>> THEN Raise("No evaluations provided")
  ELSE LET response_ids == ListOfSet(seed, evals)
       IN  IF response_ids = <<>>
           THEN Raise("No responses found in evaluations")
           ELSE LET response_averages == MeanScores(evals, response_ids)
                    winner == ArgMaxScore(response_ids, response_averages)
                IN  Return(VotingResult(winner, AVERAGE, "average_scores",
                                        response_averages))

\* variant: weighted_score = ... instead of +=, the last scorer's product
WeightedSumOverwritten(evals, response_id) ==
  LET RECURSIVE acc(_)
      acc(n) ==
        IF n = 0 THEN 0
        ELSE IF response_id \in DOMAIN evals[n].response_scores
             THEN SumValues(evals[n].response_scores[response_id])
                    * evals[n].juror_weight
             ELSE acc(n - 1)
  IN  acc(Len(evals))

\* weighted_score accumulated over the jurors that scored the response
WeightedSum(evals, response_id) ==
  LET RECURSIVE acc(_)
      acc(n) ==
        IF n = 0 THEN 0
        ELSE IF response_id \in DOMAIN evals[n].response_scores
             THEN acc(n - 1)
                    + SumValues(evals[n].response_scores[response_id])
                        * evals[n].juror_weight
             ELSE acc(n - 1)
  IN  acc(Len(evals))

TotalWeight(evals) ==
  SumSeq([i \in 1..Len(evals) |-> evals[i].juror_weight])

\* variant: the divisor is the weight of the jurors that scored the response
WeightedScoreOverScorers(evals, response_id) ==
  LET scorers ==
        SelectSeq(evals, LAMBDA e : response_id \in DOMAIN e.response_scores)
      weight == SumSeq([i \in 1..Len(scorers) |-> scorers[i].juror_weight])
  IN  IF weight > 0
      THEN Div(WeightedSum(evals, response_id), weight)
      ELSE Div(0, 1)

\* weighted_score / total_weight if total_weight > 0 else 0
WeightedScore(evals, response_id) ==
  LET total_weight == TotalWeight(evals)
  IN  IF total_weight > 0
      THEN Div(WeightedSum(evals, response_id), total_weight)
      ELSE Div(0, 1)

\* variant: the `if not evaluations` guard left out, so that an empty
\* sequence runs into the next guard
WeightedVoteUnguarded(evals, seed) ==
  LET response_ids == ListOfSet(seed, evals)
  IN  IF response_ids = <<>>
      THEN Raise("No responses found in evaluations")
      ELSE LET response_weighted_scores ==
                 [r \in Range(response_ids) |-> WeightedScore(evals, r)]
               winner == ArgMaxScore(response_ids, response_weighted_scores)
           IN  Return(VotingResult(winner, WEIGHTED, "weighted_scores",
                                   response_weighted_scores))

weighted_vote(evals, seed) ==
  IF evals = <<>> THEN Raise("No evaluations provided")
  ELSE LET response_ids == ListOfSet(seed, evals)
       IN  IF response_ids = <<>>
           THEN Raise("No responses found in evaluations")
           ELSE LET response_weighted_scores ==
                      [r \in Range(response_ids) |-> WeightedScore(evals, r)]
                    winner == ArgMaxScore(response_ids, response_weighted_scores)
                IN  Return(VotingResult(winner, WEIGHTED, "weighted_scores",
                                        response_weighted_scores))

\* variant: a ranking proper, every response scored by the mean number of
\* responses each juror puts strictly below it
RankedVoteByPosition(evals, seed) ==
  IF evals = <<>> THEN Raise("No evaluations provided")
  ELSE LET response_ids == ListOfSet(seed, evals)
       IN  IF response_ids = <<>>
           THEN Raise("No responses found in evaluations")
           ELSE LET below(e, r) ==
                      Cardinality({q \in Range(response_ids) :
                                    TotalScore(e, q) < TotalScore(e, r)})
                    response_ranks ==
                      [r \in Range(response_ids) |->
                        Mean([i \in 1..Len(evals) |-> below(evals[i], r)])]
                    winner == ArgMaxScore(response_ids, response_ranks)
                IN  Return(VotingResult(winner, RANKED, "ranked_scores",
                                        response_ranks))

ranked_vote(evals, seed) ==
  IF evals = <<>> THEN Raise("No evaluations provided")
  ELSE LET response_ids == ListOfSet(seed, evals)
       IN  IF response_ids = <<>>
           THEN Raise("No responses found in evaluations")
           ELSE LET response_ranks == MeanScores(evals, response_ids)
                    winner == ArgMaxScore(response_ids, response_ranks)
                IN  Return(VotingResult(winner, RANKED, "ranked_scores",
                                        response_ranks))

\* variant: the return statement copied from average_vote with only the
\* method changed, average_scores=response_consensus
ConsensusVoteAverageField(evals, seed) ==
  IF evals = <<>> THEN Raise("No evaluations provided")
  ELSE LET response_ids == ListOfSet(seed, evals)
       IN  IF response_ids = <<>>
           THEN Raise("No responses found in evaluations")
           ELSE LET response_consensus == MeanScores(evals, response_ids)
                    winner == ArgMaxScore(response_ids, response_consensus)
                IN  Return(VotingResult(winner, CONSENSUS, "average_scores",
                                        response_consensus))

consensus_vote(evals, seed) ==
  IF evals = <<>> THEN Raise("No evaluations provided")
  ELSE LET response_ids == ListOfSet(seed, evals)
       IN  IF response_ids = <<>>
           THEN Raise("No responses found in evaluations")
           ELSE LET response_consensus == MeanScores(evals, response_ids)
                    winner == ArgMaxScore(response_ids, response_consensus)
                IN  Return(VotingResult(winner, CONSENSUS, "consensus_scores",
                                        response_consensus))

\* VotingAggregator.aggregate, built-in branches
aggregate(evals, method, seed) ==
  CASE method = MAJORITY -> majority_vote(evals, seed)
    [] method = AVERAGE -> average_vote(evals, seed)
    [] method = WEIGHTED -> weighted_vote(evals, seed)
    [] method = RANKED -> ranked_vote(evals, seed)
    [] method = CONSENSUS -> consensus_vote(evals, seed)

----------------------------------------------------------------------------
(* Custom strategies: the registry VotingAggregator._custom_functions, a dict
   kept as the sequence of its (name, function) entries in insertion order *)

\* a str passed for an Optional[str] parameter (None otherwise)
StrArg(s) == [str |-> s]

\* the names a caller registers and invokes
StrategyNames == {"", "test_custom"}

\* the callables a caller registers: two that return a VotingResult and one
\* that returns a dict (tests/test_custom_voting.py)
CustomFunctions == {"custom_function", "simple_winner", "bad_method"}

VotingResultFields ==
  {"winner", "method", "vote_counts", "average_scores", "weighted_scores",
   "ranked_scores", "consensus_scores", "custom_scores", "custom_data"}

\* isinstance(result, VotingResult)
IsInstanceVotingResult(result) == DOMAIN result = VotingResultFields

\* function(evaluations) for the registered callables
CallFunction(function, evals) ==
  CASE function = "custom_function" ->
         [VotingResult("response_1", CUSTOM, "custom_scores", None)
            EXCEPT !.custom_scores =
                     [r \in {"response_1", "response_2"} |->
                       IF r = "response_1" THEN Div(10, 1) ELSE Div(5, 1)]]
    [] function = "simple_winner" ->
         [VotingResult("response_1", CUSTOM, "custom_scores", None)
            EXCEPT !.custom_scores =
                     [r \in {"response_1", "response_2"} |->
                       IF r = "response_1" THEN Div(10, 1) ELSE Div(5, 1)],
                   !.custom_data = [method_name |-> "simple_winner"]]
    [] function = "bad_method" -> [winner |-> "response_1"]

\* list(cls._custom_functions.keys())
DictKeys(functions) == [i \in 1..Len(functions) |-> functions[i].name]

\* name in cls._custom_functions
DictHas(functions, name) == \E i \in 1..Len(functions) : functions[i].name = name

\* cls._custom_functions[name]
DictGet(functions, name) ==
  functions[CHOOSE i \in 1..Len(functions) : functions[i].name = name].function

\* variant: cls._custom_functions.setdefault(name, function), a registered
\* name keeps its function
RegisterSetDefault(functions, name, function) ==
  IF DictHas(functions, name) THEN functions
  ELSE Append(functions, [name |-> name, function |-> function])

\* cls._custom_functions[name] = function: a new key is appended, an
\* existing key keeps its place and gets the new value
register_custom_function(functions, name, function) ==
  IF DictHas(functions, name)
  THEN [i \in 1..Len(functions) |->
         IF functions[i].name = name
         THEN [name |-> name, function |-> function]
         ELSE functions[i]]
  ELSE Append(functions, [name |-> name, function |-> function])

\* variant: cls._custom_functions.get(name, None), nothing is removed
UnregisterLooksUp(functions, name) == functions

\* variant: cls._custom_functions.clear()
UnregisterClears(functions, name) == <<>>

\* cls._custom_functions.pop(name, None)
unregister_custom_function(functions, name) ==
  SelectSeq(functions, LAMBDA entry : entry.name # name)

\* variant: [f.__name__ for f in cls._custom_functions.values()], the names
\* of the callables instead of the registered names
GetFunctionNames(functions) ==
  [i \in 1..Len(functions) |-> functions[i].function]

get_custom_functions(functions) == DictKeys(functions)

\* variant: the isinstance check left out, the function's value is returned
CustomVoteUnchecked(functions, evals, function_name) ==
  IF ~DictHas(functions, function_name)
  THEN [outcome |->
          Raise("Custom function '" \o function_name \o "' not registered"),
        invoked |-> <<>>]
  ELSE [outcome |->
          Return(CallFunction(DictGet(functions, function_name), evals)),
        invoked |-> <<DictGet(functions, function_name)>>]

\* VotingAggregator.custom_vote: the outcome of the call and the callables
\* it invoked
custom_vote(functions, evals, function_name) ==
  IF ~DictHas(functions, function_name)
  THEN [outcome |->
          Raise("Custom function '" \o function_name \o "' not registered"),
        invoked |-> <<>>]
  ELSE LET function == DictGet(functions, function_name)
           result == CallFunction(function, evals)
       IN  [outcome |->
              IF ~IsInstanceVotingResult(result)
              THEN Raise("Custom function '" \o function_name
                           \o "' must return a VotingResult object")
              ELSE Return(result),
            invoked |-> <<function>>]

\* the values a caller passes as method: the six of VotingMethod and a
\* string that is none of them
MethodSelectors == BuiltinMethods \cup {CUSTOM, "plurality"}

\* variant: `if custom_function_name is None`, an empty name is looked up
DispatchNoneCheckOnly(functions, evals, method, custom_function_name, seed) ==
  IF method \in BuiltinMethods
  THEN [outcome |-> aggregate(evals, method, seed), invoked |-> <<>>]
  ELSE IF method = CUSTOM
       THEN IF custom_function_name = None
            THEN [outcome |->
                    Raise("custom_function_name required for CUSTOM voting method"),
                  invoked |-> <<>>]
            ELSE custom_vote(functions, evals, custom_function_name.str)
       ELSE [outcome |-> Return(None), invoked |-> <<>>]

\* VotingAggregator.aggregate with its three parameters, under the registry
\* and hash behaviour of the interpreter: the built-in branches, the custom
\* branch, and the end of the if/elif chain, where the function returns None
dispatch(functions, evals, method, custom_function_name, seed) ==
  IF method \in BuiltinMethods
  THEN [outcome |-> aggregate(evals, method, seed), invoked |-> <<>>]
  ELSE IF method = CUSTOM
       THEN IF custom_function_name = None \/ custom_function_name.str = ""
            THEN [outcome |->
                    Raise("custom_function_name required for CUSTOM voting method"),
                  invoked |-> <<>>]
            ELSE custom_vote(functions, evals, custom_function_name.str)
       ELSE [outcome |-> Return(None), invoked |-> <<>>]

----------------------------------------------------------------------------
(* Confidence of a result (output_format.py) *)

\* a - b and a / b (b > 0) on quotients
RatSub(a, b) == Div(a.num * b.den - b.num * a.den, a.den * b.den)
RatDiv(a, b) == Div(a.num * b.den, a.den * b.num)

\* sorted(scores.values(), reverse=True)[0] and [1]
TopScore(scores) ==
  LET top == CHOOSE w \in DOMAIN scores :
               \A r \in DOMAIN scores : ~RatGt(scores[r], scores[w])
  IN  scores[top]

RunnerUpScore(scores) ==
  LET top == CHOOSE w \in DOMAIN scores :
               \A r \in DOMAIN scores : ~RatGt(scores[r], scores[w])
      rest == DOMAIN scores \ {top}
      second == CHOOSE v \in rest : \A r \in rest : ~RatGt(scores[r], scores[v])
  IN  scores[second]

\* variant: the gap is capped but not divided by the winner's score
GapConfidenceRaw(scores) ==
  LET actual_gap == RatSub(TopScore(scores), RunnerUpScore(scores))
  IN  IF TopScore(scores).num > 0
      THEN IF RatGt(actual_gap, Div(1, 1)) THEN Div(1, 1) ELSE actual_gap
      ELSE Div(1, 1)

\* variant: the ratio is not capped at 1.0
GapConfidenceUncapped(scores) ==
  LET actual_gap == RatSub(TopScore(scores), RunnerUpScore(scores))
  IN  IF TopScore(scores).num > 0
      THEN RatDiv(actual_gap, TopScore(scores))
      ELSE Div(1, 1)

\* sorted(scores.values(), reverse=True)[0] and [1], then
\* min(actual_gap / max_possible_gap, 1.0) if max_possible_gap > 0 else 1.0
GapConfidence(scores) ==
  LET top == CHOOSE w \in DOMAIN scores :
               \A r \in DOMAIN scores : ~RatGt(scores[r], scores[w])
      rest == DOMAIN scores \ {top}
      second == CHOOSE v \in rest : \A r \in rest : ~RatGt(scores[r], scores[v])
      winner_score == scores[top]
      runner_up_score == scores[second]
      actual_gap == RatSub(winner_score, runner_up_score)
  IN  IF winner_score.num > 0
      THEN LET ratio == RatDiv(actual_gap, winner_score)
           IN  IF RatGt(ratio, Div(1, 1)) THEN Div(1, 1) ELSE ratio
      ELSE Div(1, 1)

\* variant: the winner's votes are divided by the number of responses voted for
ConfidencePerResponse(voting_result) ==
  CASE voting_result.method = MAJORITY ->
         LET vote_counts == voting_result.vote_counts
             total_votes == Cardinality(DOMAIN vote_counts)
             winner_votes == IF voting_result.winner \in DOMAIN vote_counts
                             THEN vote_counts[voting_result.winner] ELSE 0
         IN  Return(IF total_votes > 0 THEN Div(winner_votes, total_votes)
                    ELSE Div(0, 1))
    [] voting_result.method \in {AVERAGE, WEIGHTED, RANKED, CONSENSUS} ->
         LET scores ==
               CASE voting_result.method = AVERAGE -> voting_result.average_scores
                 [] voting_result.method = WEIGHTED -> voting_result.weighted_scores
                 [] voting_result.method = RANKED -> voting_result.ranked_scores
                 [] voting_result.method = CONSENSUS ->
                      voting_result.consensus_scores
         IN  Return(IF Cardinality(DOMAIN scores) < 2 THEN Div(1, 1)
                    ELSE GapConfidence(scores))
    [] voting_result.method = CUSTOM ->
         LET scores == voting_result.custom_scores
         IN  Return(IF scores # None /\ Cardinality(DOMAIN scores) >= 2
                    THEN GapConfidence(scores)
                    ELSE Div(3, 4))
    [] OTHER ->
         Raise("Unknown voting method: " \o voting_result.method)

\* VerdictFormatter.calculate_confidence (juror_verdicts is not used)
calculate_confidence(voting_result) ==
  CASE voting_result.method = MAJORITY ->
         LET vote_counts == voting_result.vote_counts
             total_votes == SumValues(vote_counts)
             winner_votes == IF voting_result.winner \in DOMAIN vote_counts
                             THEN vote_counts[voting_result.winner] ELSE 0
         IN  Return(IF total_votes > 0 THEN Div(winner_votes, total_votes)
                    ELSE Div(0, 1))
    [] voting_result.method \in {AVERAGE, WEIGHTED, RANKED, CONSENSUS} ->
         LET scores ==
               CASE voting_result.method = AVERAGE -> voting_result.average_scores
                 [] voting_result.method = WEIGHTED -> voting_result.weighted_scores
                 [] voting_result.method = RANKED -> voting_result.ranked_scores
                 [] voting_result.method = CONSENSUS ->
                      voting_result.consensus_scores
         IN  Return(IF Cardinality(DOMAIN scores) < 2 THEN Div(1, 1)
                    ELSE GapConfidence(scores))
    [] voting_result.method = CUSTOM ->
         LET scores == voting_result.custom_scores
         IN  Return(IF scores # None /\ Cardinality(DOMAIN scores) >= 2
                    THEN GapConfidence(scores)
                    ELSE Div(3, 4))
    [] OTHER ->
         Raise("Unknown voting method: " \o voting_result.method)

----------------------------------------------------------------------------
(* Verdict assembly (output_format.py) *)

\* the attribute of a result in which create_verdict looks for the scores
ScoreField(method) ==
  CASE method = AVERAGE -> "average_scores"
    [] method = WEIGHTED -> "weighted_scores"
    [] method = RANKED -> "ranked_scores"
    [] method = CONSENSUS -> "consensus_scores"
    [] method = CUSTOM -> "custom_scores"

\* variant: the margin is divided by the winner's score
WinnerMarginNormalized(voting_result) ==
  IF voting_result.method \in {AVERAGE, WEIGHTED, RANKED, CONSENSUS, CUSTOM}
  THEN LET scores == voting_result[ScoreField(voting_result.method)]
       IN  IF scores # None /\ Cardinality(DOMAIN scores) >= 2
           THEN GapConfidence(scores)
           ELSE None
  ELSE None

\* winner_margin of create_verdict: sorted_scores[0] - sorted_scores[1] of
\* the method's score map when it has two entries or more, else None; the
\* chain has no branch for the majority method
winner_margin(voting_result) ==
  IF voting_result.method \in {AVERAGE, WEIGHTED, RANKED, CONSENSUS, CUSTOM}
  THEN LET scores == voting_result[ScoreField(voting_result.method)]
       IN  IF scores # None /\ Cardinality(DOMAIN scores) >= 2
           THEN RatSub(TopScore(scores), RunnerUpScore(scores))
           ELSE None
  ELSE None

\* VerdictFormatter.format_juror_evaluation: one entry for each response of
\* `responses` that the juror scored (the entries are modelled as a map,
\* their order in the list is not)
format_juror_evaluation(evaluation, responses) ==
  [juror_name |-> evaluation.juror_name,
   juror_weight |-> evaluation.juror_weight,
   evaluations |->
     [response_id \in DOMAIN responses \cap DOMAIN evaluation.response_scores |->
        LET scores == evaluation.response_scores[response_id]
            count == Cardinality(DOMAIN scores)
        IN  [response_text |-> responses[response_id],
             total_score |-> SumValues(scores),
             average_score |-> IF count > 0 THEN Div(SumValues(scores), count)
                               ELSE Div(0, 1)]]]

\* VerdictFormatter.create_verdict
create_verdict(responses, juror_evaluations, voting_result) ==
  LET confidence == calculate_confidence(voting_result)
  IN  IF ~confidence.ok THEN confidence
      ELSE Return(
        [responses |-> responses,
         juror_verdicts |->
           [i \in 1..Len(juror_evaluations) |->
              format_juror_evaluation(juror_evaluations[i], responses)],
         final_verdict |->
           [winner |-> voting_result.winner,
            winner_margin |-> winner_margin(voting_result),
            voting_method |-> voting_result.method,
            voting_details |-> voting_result,
            confidence |-> confidence.result],
         summary |->
           [total_jurors |-> Len(juror_evaluations),
            total_responses |-> Cardinality(DOMAIN responses),
            total_criteria |-> Cardinality(Criteria),
            voting_method |-> voting_result.method,
            confidence |-> confidence.result,
            unanimous |-> confidence.result = Div(1, 1)]])

----------------------------------------------------------------------------
(* State machine *)

\* no evaluation round of the engine is under way
EngineIdle ==
  /\ inflight = None
  /\ jury = None
  /\ juror_calls = None
  /\ verdict = None

Init ==
  /\ evaluations = <<>>
  /\ runs = <<>>
  /\ custom_functions = <<>>
  /\ calls = <<>>
  /\ EngineIdle

\* the caller constructs one more JurorEvaluation for the round
NewEvaluation ==
  /\ runs = <<>>
  /\ Len(evaluations) < Len(JurorNames)
  /\ \E response_scores \in ResponseScores, juror_weight \in Weights :
       evaluations' =
         Append(evaluations,
                JurorEvaluation(JurorNames[Len(evaluations) + 1],
                                response_scores, juror_weight))
  /\ UNCHANGED <<runs, custom_functions, calls>>
  /\ UNCHANGED engineVars

\* between two runs, the caller rebuilds one evaluation with an explicit
\* entry, scoring nothing or only zeros, for a response the juror had left out
ScoreAbsent ==
  /\ Len(runs) = 1
  /\ \E i \in 1..Len(evaluations), r \in ResponseIds,
        zeros \in {m \in CriterionMaps : \A c \in DOMAIN m : m[c] = 0} :
       /\ r \notin DOMAIN evaluations[i].response_scores
       /\ evaluations' =
            [evaluations EXCEPT ![i].response_scores =
               [x \in DOMAIN @ \cup {r} |-> IF x = r THEN zeros ELSE @[x]]]
  /\ UNCHANGED <<runs, custom_functions, calls>>
  /\ UNCHANGED engineVars

\* one interpreter run: aggregate(evaluations, method) for every built-in
\* method, under the hash behaviour of that interpreter; at most `limit` runs
AggregateAll(limit) ==
  /\ Len(runs) < limit
  /\ \E seed \in HashSeeds :
       runs' =
         Append(runs,
                [hashSeed |-> seed,
                 evaluations |-> evaluations,
                 response_ids |-> ListOfSet(seed, evaluations),
                 outcome |-> [m \in BuiltinMethods |->
                               aggregate(evaluations, m, seed)]])
  /\ UNCHANGED <<evaluations, custom_functions, calls>>
  /\ UNCHANGED engineVars

FirstRun == AggregateAll(1)
Rerun == AggregateAll(Len(<<"run1", "run2">>))

Next == NewEvaluation \/ FirstRun

Spec == Init /\ [][Next]_vars

NextRerun == NewEvaluation \/ ScoreAbsent \/ Rerun

SpecRerun == Init /\ [][NextRerun]_vars

\* The registry and the dispatcher.  One juror's evaluation is at hand; the
\* caller registers and unregisters strategies, lists them, invokes them
\* directly or through aggregate, and computes the confidence of results.
\* calls is the sequence of the calls made so far, each with what it
\* returned or raised and the callables it invoked.
SampleEvaluations ==
  <<JurorEvaluation(JurorNames[1],
                    [r \in ResponseIds |->
                      [c \in Criteria |-> IF r = "resp2" THEN MaxScore ELSE 0]],
                    1)>>

InitCustom ==
  /\ evaluations = SampleEvaluations
  /\ runs = <<>>
  /\ custom_functions = <<>>
  /\ calls = <<>>
  /\ EngineIdle

Register ==
  /\ Len(calls) < MaxCalls
  /\ \E name \in StrategyNames, function \in CustomFunctions :
       /\ custom_functions' =
            register_custom_function(custom_functions, name, function)
       /\ calls' = Append(calls, [op |-> "register_custom_function",
                                  name |-> name,
                                  function |-> function,
                                  outcome |-> Return(None)])
  /\ UNCHANGED <<evaluations, runs>>
  /\ UNCHANGED engineVars

Unregister ==
  /\ Len(calls) < MaxCalls
  /\ \E name \in StrategyNames :
       /\ custom_functions' =
            unregister_custom_function(custom_functions, name)
       /\ calls' = Append(calls, [op |-> "unregister_custom_function",
                                  name |-> name,
                                  outcome |-> Return(None)])
  /\ UNCHANGED <<evaluations, runs>>
  /\ UNCHANGED engineVars

GetCustomFunctions ==
  /\ Len(calls) < MaxCalls
  /\ calls' = Append(calls, [op |-> "get_custom_functions",
                             names |-> get_custom_functions(custom_functions)])
  /\ UNCHANGED <<evaluations, runs, custom_functions>>
  /\ UNCHANGED engineVars

CustomVote ==
  /\ Len(calls) < MaxCalls
  /\ \E function_name \in StrategyNames :
       LET call == custom_vote(custom_functions, evaluations, function_name)
       IN  calls' = Append(calls, [op |-> "custom_vote",
                                   function_name |-> function_name,
                                   outcome |-> call.outcome,
                                   invoked |-> call.invoked])
  /\ UNCHANGED <<evaluations, runs, custom_functions>>
  /\ UNCHANGED engineVars

\* aggregate(evaluations, method) or, for the custom method,
\* aggregate(evaluations, method, custom_function_name), the method taken
\* from `methods`
AggregateWith(methods) ==
  /\ Len(calls) < MaxCalls
  /\ \E method \in methods, seed \in HashSeeds,
        custom_function_name \in {None} \cup {StrArg(n) : n \in StrategyNames} :
       /\ method # CUSTOM => custom_function_name = None
       /\ LET call == dispatch(custom_functions, evaluations, method,
                               custom_function_name, seed)
          IN  calls' = Append(calls, [op |-> "aggregate",
                                      method |-> method,
                                      custom_function_name |-> custom_function_name,
                                      outcome |-> call.outcome,
                                      invoked |-> call.invoked])
  /\ UNCHANGED <<evaluations, runs, custom_functions>>
  /\ UNCHANGED engineVars

AggregateCustom == AggregateWith({CUSTOM})
Aggregate == AggregateWith(MethodSelectors)

\* the results returned so far
ReturnedResults ==
  {calls[i].outcome.result :
     i \in {j \in 1..Len(calls) :
              /\ calls[j].op \in {"custom_vote", "aggregate"}
              /\ calls[j].outcome.ok
              /\ calls[j].outcome.result # None}}

\* a VotingResult whose method attribute was set, past validation, to a
\* string that is none of the six (model_construct, or assignment)
UnvalidatedResult ==
  VotingResult("resp2", "plurality", "average_scores",
               [r \in ResponseIds |-> Div(IF r = "resp2" THEN MaxScore ELSE 0, 1)])

CalculateConfidence ==
  /\ Len(calls) < MaxCalls
  /\ \E voting_result \in ReturnedResults \cup {UnvalidatedResult} :
       calls' = Append(calls, [op |-> "calculate_confidence",
                               voting_result |-> voting_result,
                               outcome |-> calculate_confidence(voting_result)])
  /\ UNCHANGED <<evaluations, runs, custom_functions>>
  /\ UNCHANGED engineVars

\* the registry and the custom method
NextCustom ==
  \/ Register
  \/ Unregister
  \/ GetCustomFunctions
  \/ CustomVote
  \/ AggregateCustom

SpecCustom == InitCustom /\ [][NextCustom]_vars

\* the dispatcher over every method selector, and the confidence of results
NextDispatch ==
  \/ Register
  \/ Aggregate
  \/ CalculateConfidence

SpecDispatch == InitCustom /\ [][NextDispatch]_vars

\* Verdict assembly.  Either the caller collects the jurors' evaluations,
\* aggregates them by one of the six methods (a strategy is registered for
\* the custom one) and assembles the verdict of the result; or, with no
\* evaluation at hand, it assembles the verdict of a result it built itself.
\* verdict records the evaluations, the result and what create_verdict
\* returned or raised.
RegisteredStrategy == [name |-> "test_custom", function |-> "custom_function"]

InitVerdict ==
  /\ evaluations = <<>>
  /\ runs = <<>>
  /\ custom_functions = <<RegisteredStrategy>>
  /\ calls = <<>>
  /\ EngineIdle

\* response id -> response text
ResponseTexts(ids) == [r \in ids |-> "text of " \o r]

Collect ==
  /\ verdict = None
  /\ NewEvaluation

CreateVerdict ==
  /\ verdict = None
  /\ \E method \in BuiltinMethods \cup {CUSTOM}, seed \in HashSeeds :
       LET name == IF method = CUSTOM THEN StrArg(RegisteredStrategy.name)
                   ELSE None
           call == dispatch(custom_functions, evaluations, method, name, seed)
       IN  /\ call.outcome.ok
           /\ verdict' =
                [produced_by |-> "aggregate",
                 method |-> method,
                 juror_evaluations |-> evaluations,
                 voting_result |-> call.outcome.result,
                 outcome |-> create_verdict(ResponseTexts(ResponseIds),
                                            evaluations, call.outcome.result)]
  /\ UNCHANGED <<evaluations, runs, custom_functions, calls,
                 inflight, jury, juror_calls>>

\* the response ids of a result built by hand
ConstructedIds == ReplyIds
\* its scores
ScoreLevels == {Div(n, 1) : n \in (0 - MaxScore)..MaxTop}

\* VotingResult(winner=..., method=..., <score map>=...) built by hand
ConstructedResults ==
  {VotingResult(winner, MAJORITY, "vote_counts", vote_counts) :
     winner \in ConstructedIds,
     vote_counts \in UNION {[ids -> 0..MaxVotes] : ids \in SUBSET ResponseIds}}
  \cup
  UNION {{VotingResult(winner, method, ScoreField(method), scores) :
            winner \in ResponseIds,
            scores \in UNION {[ids -> ScoreLevels] : ids \in SUBSET ConstructedIds}} :
         method \in {AVERAGE, WEIGHTED, RANKED, CONSENSUS}}

CreateVerdictOfConstructed ==
  /\ verdict = None
  /\ evaluations = <<>>
  /\ \E voting_result \in ConstructedResults :
       verdict' =
         [produced_by |-> "caller",
          method |-> voting_result.method,
          juror_evaluations |-> evaluations,
          voting_result |-> voting_result,
          outcome |-> create_verdict(ResponseTexts(ConstructedIds),
                                     evaluations, voting_result)]
  /\ UNCHANGED <<evaluations, runs, custom_functions, calls,
                 inflight, jury, juror_calls>>

NextVerdict ==
  \/ Collect
  \/ CreateVerdict
  \/ CreateVerdictOfConstructed

SpecVerdict == InitVerdict /\ [][NextVerdict]_vars

\* The registry under threads.  One thread runs custom_vote statement by
\* statement while another registers and unregisters strategies; each
\* statement on the dict is one step (the class holds no lock).  inflight is
\* the running custom_vote: the statement it is about to execute and its
\* locals.
RaiseKeyError(key) == [ok |-> FALSE, error |-> "KeyError", key |-> key]

\* if function_name not in cls._custom_functions: raise ValueError(...)
CustomVoteCheck ==
  /\ inflight = None
  /\ Len(calls) < MaxCalls
  /\ \E function_name \in StrategyNames :
       IF ~DictHas(custom_functions, function_name)
       THEN /\ calls' = Append(calls,
                  [op |-> "custom_vote",
                   function_name |-> function_name,
                   outcome |-> Raise("Custom function '" \o function_name
                                       \o "' not registered"),
                   invoked |-> <<>>])
            /\ UNCHANGED inflight
       ELSE /\ inflight' = [pc |-> "lookup", function_name |-> function_name]
            /\ UNCHANGED calls
  /\ UNCHANGED <<evaluations, runs, custom_functions, jury, juror_calls, verdict>>

\* function = cls._custom_functions[function_name]
CustomVoteLookup ==
  /\ inflight # None
  /\ inflight.pc = "lookup"
  /\ IF DictHas(custom_functions, inflight.function_name)
     THEN /\ inflight' = [pc |-> "call",
                          function_name |-> inflight.function_name,
                          function |-> DictGet(custom_functions,
                                               inflight.function_name)]
          /\ UNCHANGED calls
     ELSE /\ calls' = Append(calls,
                [op |-> "custom_vote",
                 function_name |-> inflight.function_name,
                 outcome |-> RaiseKeyError(inflight.function_name),
                 invoked |-> <<>>])
          /\ inflight' = None
  /\ UNCHANGED <<evaluations, runs, custom_functions, jury, juror_calls, verdict>>

\* result = function(evaluations), the isinstance check and the return
CustomVoteCall ==
  /\ inflight # None
  /\ inflight.pc = "call"
  /\ LET result == CallFunction(inflight.function, evaluations)
     IN  calls' = Append(calls,
           [op |-> "custom_vote",
            function_name |-> inflight.function_name,
            outcome |-> IF ~IsInstanceVotingResult(result)
                        THEN Raise("Custom function '" \o inflight.function_name
                                     \o "' must return a VotingResult object")
                        ELSE Return(result),
            invoked |-> <<inflight.function>>])
  /\ inflight' = None
  /\ UNCHANGED <<evaluations, runs, custom_functions, jury, juror_calls, verdict>>

NextThreads ==
  \/ Register
  \/ Unregister
  \/ CustomVoteCheck
  \/ CustomVoteLookup
  \/ CustomVoteCall

SpecThreads == InitCustom /\ [][NextThreads]_vars

----------------------------------------------------------------------------
(* The evaluation engine (jury_engine.py, juror.py) *)

\* config.jurors: the jurors of the jury and their weights
JurorConfigs ==
  [i \in 1..Len(JurorNames) |->
     [name |-> JurorNames[i], weight |-> Len(JurorNames) + 1 - i]]

\* the candidates handed to evaluate: ResponseCandidate(id, content)
ResponseCandidates ==
  [i \in 1..Len(CandidateOrder) |->
     [id |-> CandidateOrder[i], content |-> "text of " \o CandidateOrder[i]]]

\* the response_ids argument of evaluate: absent, the candidates' own ids,
\* other ids, or a list of another length
ResponseIdsArgs ==
  {None,
   [ids |-> CandidateOrder],
   [ids |-> <<"custom_1", "custom_2">>],
   [ids |-> <<"custom_1">>]}

\* voting_method and custom_voting_function of the configuration
MethodConfigs ==
  {[voting_method |-> m, custom_voting_function |-> None] : m \in BuiltinMethods}
  \cup {[voting_method |-> CUSTOM, custom_voting_function |-> f] :
          f \in {None, StrArg(RegisteredStrategy.name)}}

\* scores {response id: {criterion: score}} parsed from one reply of the
\* model: every candidate scored 0 or 1, every candidate scored 0 next to an
\* entry for an id that is no candidate, a candidate left out, a criterion
\* left out
FullScores ==
  [ResponseIds -> [Criteria -> {0, 1}]]

ZeroScores == [r \in ResponseIds |-> [c \in Criteria |-> 0]]

WithExtraId(scores) ==
  [r \in ReplyIds |->
     IF r \in DOMAIN scores THEN scores[r] ELSE [c \in Criteria |-> 1]]

ParsedScores ==
  FullScores
  \cup {WithExtraId(ZeroScores)}
  \cup {[r \in {"resp1"} |-> [c \in Criteria |-> 1]]}
  \cup {[r \in ResponseIds |->
           IF r = "resp1" THEN [c \in Criteria |-> 1] ELSE [c \in {} |-> 0]]}

\* what one attempt yields: parsed scores, or None when the invocation of
\* the model raised
AttemptOutputs == ParsedScores \cup {None}

\* variant: an attempt is accepted as soon as it scores some response
CoversSome(scores, responses) ==
  /\ scores # None
  /\ DOMAIN scores # {}

\* the check of Juror.evaluate on the parsed scores: every expected
\* response is scored on every expected criterion
Covers(scores, responses) ==
  /\ scores # None
  /\ \A i \in 1..Len(responses) :
       /\ responses[i].id \in DOMAIN scores
       /\ \A criterion_name \in Criteria :
            criterion_name \in DOMAIN scores[responses[i].id]

Juries ==
  {[parallel_execution |-> parallel_execution,
    max_retries |-> max_retries,
    voting_method |-> mc.voting_method,
    custom_voting_function |-> mc.custom_voting_function,
    responses |-> args.responses,
    response_ids |-> args.response_ids,
    response_mapping |-> None,
    pc |-> "evaluate"] :
     parallel_execution \in BOOLEAN,
     max_retries \in 0..MaxRetries,
     mc \in MethodConfigs,
     args \in {[responses |-> ResponseCandidates, response_ids |-> ids] :
                 ids \in ResponseIdsArgs}
              \cup {[responses |-> <<>>, response_ids |-> None]}}

InitEngine ==
  /\ evaluations = <<>>
  /\ runs = <<>>
  /\ custom_functions = <<RegisteredStrategy>>
  /\ calls = <<>>
  /\ inflight = None
  /\ jury \in Juries
  /\ juror_calls = [i \in 1..Len(JurorConfigs) |->
                      [status |-> "running", invocations |-> 0, scores |-> None]]
  /\ verdict = None

\* what evaluate returned or raised
EvaluateOutcome(voting_result, outcome) ==
  [produced_by |-> "evaluate",
   method |-> jury.voting_method,
   juror_evaluations |-> evaluations,
   voting_result |-> voting_result,
   outcome |-> outcome]

\* OpenJury.evaluate up to the collection of the jurors' evaluations: the
\* checks of the arguments and the response mapping
EvaluateBegin ==
  /\ jury.pc = "evaluate"
  /\ IF jury.responses = <<>>
     THEN /\ verdict' = EvaluateOutcome(None,
                 Raise("No responses provided for evaluation"))
          /\ jury' = [jury EXCEPT !.pc = "done"]
     ELSE IF jury.response_ids = None
     THEN /\ jury' = [jury EXCEPT
                        !.pc = "collect",
                        !.response_mapping =
                           [id \in {jury.responses[i].id :
                                      i \in 1..Len(jury.responses)} |->
                              LET i == CHOOSE k \in 1..Len(jury.responses) :
                                         /\ jury.responses[k].id = id
                                         /\ \A l \in 1..Len(jury.responses) :
                                              jury.responses[l].id = id => l <= k
                              IN  jury.responses[i].content]]
          /\ UNCHANGED verdict
     ELSE IF Len(jury.response_ids.ids) # Len(jury.responses)
     THEN /\ verdict' = EvaluateOutcome(None,
                 Raise("Number of response_ids must match number of responses"))
          /\ jury' = [jury EXCEPT !.pc = "done"]
     ELSE /\ jury' = [jury EXCEPT
                        !.pc = "collect",
                        !.response_mapping =
                           [id \in Range(jury.response_ids.ids) |->
                              LET i == CHOOSE k \in 1..Len(jury.responses) :
                                         /\ jury.response_ids.ids[k] = id
                                         /\ \A l \in 1..Len(jury.responses) :
                                              jury.response_ids.ids[l] = id => l <= k
                              IN  jury.responses[i].content]]
          /\ UNCHANGED verdict
  /\ UNCHANGED <<evaluations, runs, custom_functions, calls, inflight, juror_calls>>

\* juror i's call is running: in the thread pool every call runs from the
\* start, in the sequential loop a call runs once the calls before it ended
MayRun(i) ==
  /\ jury.pc = "collect"
  /\ juror_calls[i].status = "running"
  /\ \/ jury.parallel_execution /\ Len(JurorConfigs) > 1
     \/ \A k \in 1..(i - 1) : juror_calls[k].status # "running"

\* one iteration of the loop of Juror.evaluate: the model is invoked and its
\* reply parsed and checked.  A reply that passes ends the call: the engine
\* appends JurorEvaluation(name, scores, weight) (in the pool, in the order
\* in which the calls complete).  Any exception goes on to the next
\* iteration.
JurorAttempt ==
  \E i \in 1..Len(JurorConfigs), scores \in AttemptOutputs :
     /\ MayRun(i)
     /\ juror_calls[i].invocations < jury.max_retries
     /\ IF Covers(scores, jury.responses)
        THEN /\ juror_calls' =
                  [juror_calls EXCEPT
                     ![i] = [status |-> "succeeded",
                             invocations |-> @.invocations + 1,
                             scores |-> scores]]
             /\ evaluations' =
                  Append(evaluations,
                         JurorEvaluation(JurorConfigs[i].name, scores,
                                         JurorConfigs[i].weight))
        ELSE /\ juror_calls' =
                  [juror_calls EXCEPT ![i].invocations = @ + 1]
             /\ UNCHANGED evaluations
     /\ UNCHANGED <<runs, custom_functions, calls, inflight, jury, verdict>>

\* the loop of Juror.evaluate is over without a return: JurorException,
\* which the engine logs before it goes on with the other jurors
JurorRaise ==
  \E i \in 1..Len(JurorConfigs) :
     /\ MayRun(i)
     /\ juror_calls[i].invocations >= jury.max_retries
     /\ juror_calls' = [juror_calls EXCEPT ![i].status = "failed"]
     /\ UNCHANGED <<evaluations, runs, custom_functions, calls, inflight,
                    jury, verdict>>

\* variant: the round is given up when some juror failed
SomeJurorFailed(successful_evaluations) ==
  successful_evaluations < Len(JurorConfigs)

\* if successful_evaluations == 0: raise OpenJuryEvaluationError(...)
NoJurorSucceeded(successful_evaluations) ==
  successful_evaluations = 0

\* OpenJury.evaluate after the collection: the check that some juror
\* succeeded, the aggregation and the verdict
EvaluateEnd ==
  /\ jury.pc = "collect"
  /\ \A i \in 1..Len(JurorConfigs) : juror_calls[i].status # "running"
  /\ jury' = [jury EXCEPT !.pc = "done"]
  /\ \E seed \in ReplyHashSeeds :
       verdict' =
         IF NoJurorSucceeded(Len(evaluations))
         THEN EvaluateOutcome(None,
                Raise("All jurors failed to complete evaluation"))
         ELSE IF jury.voting_method = CUSTOM
                 /\ (\/ jury.custom_voting_function = None
                     \/ jury.custom_voting_function = StrArg(""))
         THEN EvaluateOutcome(None,
                Raise("Failed to aggregate votes: Custom voting method selected but no custom_voting_function specified in config"))
         ELSE LET call == dispatch(custom_functions, evaluations,
                                   jury.voting_method,
                                   jury.custom_voting_function, seed)
              IN  IF ~call.outcome.ok
                  THEN EvaluateOutcome(None,
                         Raise("Failed to aggregate votes: "
                                 \o call.outcome.error))
                  ELSE LET created == create_verdict(jury.response_mapping,
                                                     evaluations,
                                                     call.outcome.result)
                       IN  EvaluateOutcome(call.outcome.result,
                             IF created.ok THEN created
                             ELSE Raise("Failed to create verdict: "
                                          \o created.error))
  /\ UNCHANGED <<evaluations, runs, custom_functions, calls, inflight, juror_calls>>

NextEngine ==
  \/ EvaluateBegin
  \/ JurorAttempt
  \/ JurorRaise
  \/ EvaluateEnd

SpecEngine == InitEngine /\ [][NextEngine]_vars

----------------------------------------------------------------------------
(* Properties of the built-in strategies *)

\* the union of the response ids scored in the input
ScoredIds(evals) ==
  UNION {DOMAIN evals[i].response_scores : i \in 1..Len(evals)}

ValidInput(evals) == evals # <<>> /\ ScoredIds(evals) # {}

RECURSIVE Sigma(_, _)
Sigma(n, f) == IF n = 0 THEN 0 ELSE Sigma(n - 1, f) + f[n]

\* a juror's total for a response as the specification defines it (Criteria
\* holds the one criterion "factuality")
Total(e, r) ==
  IF r \in DOMAIN e.response_scores
  THEN LET d == e.response_scores[r]
       IN  IF "factuality" \in DOMAIN d THEN d["factuality"] ELSE 0
  ELSE 0

AveragingMethods == {AVERAGE, RANKED, CONSENSUS}
ScoreMethods == AveragingMethods \cup {WEIGHTED}

\* the score map a result of the given method carries
ScoreMapOf(result) ==
  CASE result.method = MAJORITY -> result.vote_counts
    [] result.method = AVERAGE -> result.average_scores
    [] result.method = WEIGHTED -> result.weighted_scores
    [] result.method = RANKED -> result.ranked_scores
    [] result.method = CONSENSUS -> result.consensus_scores

\* C1: on a non-empty input that scores at least one response, each of the
\* five built-in strategies returns a result whose winner is a response id
\* scored by at least one input evaluation.
C1_WinnerIsScored ==
  \A k \in 1..Len(runs) :
    ValidInput(runs[k].evaluations) =>
      \A m \in BuiltinMethods :
        /\ runs[k].outcome[m].ok
        /\ runs[k].outcome[m].result.winner \in ScoredIds(runs[k].evaluations)

\* a run over two jurors that score only resp2, both below zero, so that the
\* unscored candidate would beat it
C1_Witness ==
  \E k \in 1..Len(runs) :
    /\ Len(runs[k].evaluations) = 2
    /\ ScoredIds(runs[k].evaluations) = {"resp2"}
    /\ \A i \in 1..2 : Total(runs[k].evaluations[i], "resp2") < 0
    /\ \A m \in BuiltinMethods : runs[k].outcome[m].result.winner = "resp2"

\* C2: for average, weighted, ranked and consensus the winner is an argmax
\* of the returned score map: no response in the map scores strictly more.
C2_WinnerIsArgmax ==
  \A k \in 1..Len(runs) : \A m \in ScoreMethods :
    runs[k].outcome[m].ok =>
      LET result == runs[k].outcome[m].result
          scores == ScoreMapOf(result)
      IN  /\ result.winner \in DOMAIN scores
          /\ \A r \in DOMAIN scores :
               scores[r].num * scores[result.winner].den
                 <= scores[result.winner].num * scores[r].den

\* a run whose weighted scores are negative and distinct, the larger one for
\* the response enumerated last
C2_Witness ==
  \E k \in 1..Len(runs) :
    /\ runs[k].outcome[WEIGHTED].ok
    /\ LET result == runs[k].outcome[WEIGHTED].result
           scores == result.weighted_scores
       IN  /\ DOMAIN scores = ResponseIds
           /\ \A r \in ResponseIds : scores[r].num < 0
           /\ scores["resp1"] # scores["resp2"]
           /\ result.winner = runs[k].response_ids[2]

\* the responses with the largest total under one juror
TopIds(e, ids) == {r \in ids : \A q \in ids : Total(e, q) <= Total(e, r)}

C4_VotesSumToJurors ==
  \A k \in 1..Len(runs) :
    runs[k].outcome[MAJORITY].ok =>
      SumValues(runs[k].outcome[MAJORITY].result.vote_counts)
        = Len(runs[k].evaluations)

\* both jurors vote for the same response
C4_Witness ==
  \E k \in 1..Len(runs) :
    /\ runs[k].outcome[MAJORITY].ok
    /\ \E r \in ResponseIds :
         runs[k].outcome[MAJORITY].result.vote_counts = (r :> 2)

\* C5: weighted_vote returns, for every response of the union, the sum over
\* all jurors of total x weight divided by the sum of all weights (a juror
\* that did not score the response adds 0 above and its weight below), and 0
\* for every response when the total weight is 0.
C5_WeightedFormula ==
  \A k \in 1..Len(runs) :
    runs[k].outcome[WEIGHTED].ok =>
      LET evals == runs[k].evaluations
          n == Len(evals)
          scores == runs[k].outcome[WEIGHTED].result.weighted_scores
          weight == Sigma(n, [i \in 1..n |-> evals[i].juror_weight])
      IN  /\ DOMAIN scores = ScoredIds(evals)
          /\ \A r \in DOMAIN scores :
               /\ scores[r].den > 0
               /\ IF weight = 0 THEN scores[r].num = 0
                  ELSE scores[r].num * weight
                         = scores[r].den
                             * Sigma(n, [i \in 1..n |->
                                 Total(evals[i], r) * evals[i].juror_weight])

\* jurors of different positive weights, one of which left out a response the
\* other scored above zero
C5_Witness ==
  \E k \in 1..Len(runs) :
    /\ runs[k].outcome[WEIGHTED].ok
    /\ Len(runs[k].evaluations) = 2
    /\ runs[k].evaluations[1].juror_weight = 2
    /\ runs[k].evaluations[2].juror_weight = 1
    /\ "resp1" \notin DOMAIN runs[k].evaluations[1].response_scores
    /\ Total(runs[k].evaluations[2], "resp1") = 1
    /\ runs[k].outcome[WEIGHTED].result.weighted_scores["resp1"]
         = [num |-> 1, den |-> 3]

\* C6: average_vote returns a map over exactly the union of response ids
\* whose value for a response is the sum of all jurors' totals for it (0 for
\* a juror that did not score it) over the number of evaluations, whatever
\* the juror weights.
C6_AverageFormula ==
  \A k \in 1..Len(runs) :
    runs[k].outcome[AVERAGE].ok =>
      LET evals == runs[k].evaluations
          n == Len(evals)
          scores == runs[k].outcome[AVERAGE].result.average_scores
      IN  /\ DOMAIN scores = ScoredIds(evals)
          /\ \A r \in DOMAIN scores :
               /\ scores[r].den > 0
               /\ scores[r].num * n
                    = scores[r].den
                        * Sigma(n, [i \in 1..n |-> Total(evals[i], r)])

\* two jurors of different weights, one of which left out a response the
\* other scored 1: the mean is 1/2
C6_Witness ==
  \E k \in 1..Len(runs) :
    /\ runs[k].outcome[AVERAGE].ok
    /\ Len(runs[k].evaluations) = 2
    /\ runs[k].evaluations[1].juror_weight # runs[k].evaluations[2].juror_weight
    /\ "resp2" \notin DOMAIN runs[k].evaluations[2].response_scores
    /\ Total(runs[k].evaluations[1], "resp2") = 1
    /\ runs[k].outcome[AVERAGE].result.average_scores["resp2"]
         = [num |-> 1, den |-> 2]

\* `after` is `before` with some absent responses given an explicit entry
\* whose criterion map is empty or all zero, the responses scored overall
\* being the same
ExplicitZeros(before, after) ==
  /\ Len(before) = Len(after)
  /\ before # after
  /\ ScoredIds(before) = ScoredIds(after)
  /\ \A i \in 1..Len(before) :
       /\ before[i].juror_name = after[i].juror_name
       /\ before[i].juror_weight = after[i].juror_weight
       /\ DOMAIN before[i].response_scores \subseteq DOMAIN after[i].response_scores
       /\ \A r \in DOMAIN after[i].response_scores :
            IF r \in DOMAIN before[i].response_scores
            THEN after[i].response_scores[r] = before[i].response_scores[r]
            ELSE \A c \in DOMAIN after[i].response_scores[r] :
                   after[i].response_scores[r][c] = 0

\* the score map has one largest value
UniqueTop(scores) ==
  \E w \in DOMAIN scores : \A r \in DOMAIN scores \ {w} :
    scores[r].num * scores[w].den < scores[w].num * scores[r].den

\* no tie is broken in a majority vote over evals with these vote counts
MajorityUntied(evals, counts) ==
  /\ \A i \in 1..Len(evals) :
       Cardinality(TopIds(evals[i], ScoredIds(evals))) = 1
  /\ \E w \in DOMAIN counts : \A r \in DOMAIN counts \ {w} : counts[r] < counts[w]

\* C7 as claimed, for two calls made by the same interpreter: giving an
\* absent response an explicit empty or all-zero entry changes neither the
\* winner nor the score map or vote counts of any built-in strategy.
C7_ExplicitZeroChangesNothing ==
  \A j \in 1..Len(runs) : \A k \in 1..Len(runs) :
    ( /\ ExplicitZeros(runs[j].evaluations, runs[k].evaluations)
      /\ runs[j].hashSeed = runs[k].hashSeed )
      => \A m \in BuiltinMethods : runs[j].outcome[m] = runs[k].outcome[m]

\* C7 (amended): giving an absent response an explicit empty or all-zero
\* entry changes no value of the average, weighted, ranked or consensus
\* score map; the winner and the vote counts are unchanged as well when both
\* calls enumerate the response ids in the same order, or when no tie is
\* broken (one largest score; for majority one top response per juror and
\* one largest vote count).
C7_ExplicitZeroKeepsScores ==
  \A j \in 1..Len(runs) : \A k \in 1..Len(runs) :
    ExplicitZeros(runs[j].evaluations, runs[k].evaluations) =>
      /\ \A m \in BuiltinMethods :
           runs[j].outcome[m].ok /\ runs[k].outcome[m].ok
      /\ \A m \in ScoreMethods :
           /\ ScoreMapOf(runs[j].outcome[m].result)
                = ScoreMapOf(runs[k].outcome[m].result)
           /\ UniqueTop(ScoreMapOf(runs[j].outcome[m].result))
                => runs[j].outcome[m] = runs[k].outcome[m]
      /\ MajorityUntied(runs[j].evaluations,
                        runs[j].outcome[MAJORITY].result.vote_counts)
           => runs[j].outcome[MAJORITY] = runs[k].outcome[MAJORITY]
      /\ runs[j].response_ids = runs[k].response_ids
           => \A m \in BuiltinMethods : runs[j].outcome[m] = runs[k].outcome[m]

\* the second run differs from the first by an explicit empty entry for a
\* response that another juror scored below zero, and enumerates the ids in
\* another order
C7_Witness ==
  /\ Len(runs) = 2
  /\ ExplicitZeros(runs[1].evaluations, runs[2].evaluations)
  /\ runs[1].response_ids # runs[2].response_ids
  /\ \E i \in 1..Len(runs[1].evaluations), r \in ResponseIds :
       /\ r \notin DOMAIN runs[1].evaluations[i].response_scores
       /\ r \in DOMAIN runs[2].evaluations[i].response_scores
       /\ DOMAIN runs[2].evaluations[i].response_scores[r] = {}
       /\ runs[1].outcome[AVERAGE].result.average_scores[r].num < 0
       /\ UniqueTop(runs[1].outcome[AVERAGE].result.average_scores)

\* the first id, in the order given, that belongs to the set
FirstOf(order, set) ==
  order[CHOOSE i \in 1..Len(order) :
          /\ order[i] \in set
          /\ \A h \in 1..(i - 1) : order[h] \notin set]

\* the ids in the order they are first met when scanning the evaluations
FirstSeen(evals) == InsertionOrder(evals)

\* C8 as claimed: whenever several responses share the maximum (a juror's top
\* total, the top vote count, the top aggregate score), the one selected is
\* the one first encountered when scanning the evaluation sequence.
C8_FirstSeenWinsTies ==
  \A k \in 1..Len(runs) :
    LET evals == runs[k].evaluations
        seen == FirstSeen(evals)
        ids == ScoredIds(evals)
    IN  /\ \A m \in ScoreMethods :
             runs[k].outcome[m].ok =>
               LET scores == ScoreMapOf(runs[k].outcome[m].result)
               IN  runs[k].outcome[m].result.winner
                     = FirstOf(seen,
                               {w \in ids : \A r \in ids :
                                  scores[r].num * scores[w].den
                                    <= scores[w].num * scores[r].den})
        /\ runs[k].outcome[MAJORITY].ok =>
             LET votes == [i \in 1..Len(evals) |->
                            FirstOf(seen, TopIds(evals[i], ids))]
                 counts == [r \in {votes[i] : i \in 1..Len(evals)} |->
                             Cardinality({i \in 1..Len(evals) : votes[i] = r})]
                 result == runs[k].outcome[MAJORITY].result
             IN  /\ result.vote_counts = counts
                 /\ result.winner
                      = FirstOf(seen,
                                {w \in DOMAIN counts : \A r \in DOMAIN counts :
                                   counts[r] <= counts[w]})

\* C9 as claimed: two calls with the same method and the same sequence of
\* evaluations return the same winner and the same score map, whatever the
\* enumeration order of the response-id set.
C9_SameInputSameResult ==
  \A j \in 1..Len(runs) : \A k \in 1..Len(runs) :
    runs[j].evaluations = runs[k].evaluations =>
      \A m \in BuiltinMethods : runs[j].outcome[m] = runs[k].outcome[m]

AllWeightsEqual(evals) ==
  \A i \in 1..Len(evals) : evals[i].juror_weight = evals[1].juror_weight

\* C10 as claimed: when all jurors have the same weight, weighted_vote
\* returns the winner average_vote returns.
C10_EqualWeightsSameWinner ==
  \A k \in 1..Len(runs) :
    ( /\ ValidInput(runs[k].evaluations)
      /\ AllWeightsEqual(runs[k].evaluations) )
      => runs[k].outcome[WEIGHTED].result.winner
           = runs[k].outcome[AVERAGE].result.winner

\* C10 (amended): when all jurors have the same weight and that weight is
\* greater than 0, weighted_vote returns the winner average_vote returns
\* (integer scores and weights, both calls made by the same interpreter).
C10_EqualPositiveWeightsSameWinner ==
  \A k \in 1..Len(runs) :
    ( /\ ValidInput(runs[k].evaluations)
      /\ AllWeightsEqual(runs[k].evaluations)
      /\ runs[k].evaluations[1].juror_weight > 0 )
      => /\ runs[k].outcome[WEIGHTED].ok
         /\ runs[k].outcome[AVERAGE].ok
         /\ runs[k].outcome[WEIGHTED].result.winner
              = runs[k].outcome[AVERAGE].result.winner

\* two jurors of weight 2 disagree on the better response, one of them
\* scoring a single response; the winner is the response enumerated last
C10_Witness ==
  \E k \in 1..Len(runs) :
    /\ Len(runs[k].evaluations) = 2
    /\ \A i \in 1..2 : runs[k].evaluations[i].juror_weight = 2
    /\ DOMAIN runs[k].evaluations[1].response_scores # ResponseIds
    /\ Len(runs[k].response_ids) = 2
    /\ runs[k].outcome[WEIGHTED].ok
    /\ UniqueTop(runs[k].outcome[WEIGHTED].result.weighted_scores)
    /\ runs[k].outcome[WEIGHTED].result.winner = runs[k].response_ids[2]
    /\ runs[k].outcome[AVERAGE].result.winner = runs[k].response_ids[2]

C12_EmptyInputErrors ==
  \A k \in 1..Len(runs) :
    LET evals == runs[k].evaluations
        seed == runs[k].hashSeed
        direct == [m \in BuiltinMethods |->
                    CASE m = MAJORITY -> majority_vote(evals, seed)
                      [] m = AVERAGE -> average_vote(evals, seed)
                      [] m = WEIGHTED -> weighted_vote(evals, seed)
                      [] m = RANKED -> ranked_vote(evals, seed)
                      [] m = CONSENSUS -> consensus_vote(evals, seed)]
    IN  \A m \in BuiltinMethods : \A out \in {runs[k].outcome[m], direct[m]} :
          IF evals = <<>>
          THEN /\ ~out.ok
               /\ out.error = "No evaluations provided"
               /\ "result" \notin DOMAIN out
          ELSE IF \A i \in 1..Len(evals) : DOMAIN evals[i].response_scores = {}
               THEN /\ ~out.ok
                    /\ out.error = "No responses found in evaluations"
                    /\ "result" \notin DOMAIN out
               ELSE out.ok

\* a run over two jurors neither of which scored a response: all five
\* calls raise the no-responses error
C12_Witness ==
  \E k \in 1..Len(runs) :
    /\ Len(runs[k].evaluations) = 2
    /\ \A i \in 1..2 : DOMAIN runs[k].evaluations[i].response_scores = {}
    /\ \A m \in BuiltinMethods :
         runs[k].outcome[m] = Raise("No responses found in evaluations")

\* C15: for each built-in method, the result of aggregate(evaluations,
\* method) has its method field equal to the requested method and exactly
\* one score map set, the one of that method; the other four score maps,
\* custom_scores and custom_data are None.
C15_OneScoreMapPopulated ==
  \A k \in 1..Len(runs) : \A m \in BuiltinMethods :
    runs[k].outcome[m].ok =>
      LET result == runs[k].outcome[m].result
          own == CASE m = MAJORITY -> "vote_counts"
                   [] m = AVERAGE -> "average_scores"
                   [] m = WEIGHTED -> "weighted_scores"
                   [] m = RANKED -> "ranked_scores"
                   [] m = CONSENSUS -> "consensus_scores"
      IN  /\ result.method = m
          /\ result[own] # None
          /\ DOMAIN result[own] # {}
          /\ \A field \in {"vote_counts", "average_scores", "weighted_scores",
                            "ranked_scores", "consensus_scores",
                            "custom_scores", "custom_data"} \ {own} :
               result[field] = None

\* a run over two jurors that scored both responses: five results, each
\* with its own score map over the two responses (the vote counts over the
\* voted ones)
C15_Witness ==
  \E k \in 1..Len(runs) :
    /\ Len(runs[k].evaluations) = 2
    /\ \A m \in BuiltinMethods : runs[k].outcome[m].ok
    /\ \A m \in ScoreMethods :
         DOMAIN ScoreMapOf(runs[k].outcome[m].result) = ResponseIds
    /\ DOMAIN runs[k].outcome[MAJORITY].result.vote_counts = {"resp2"}
    /\ runs[k].outcome[CONSENSUS].result.average_scores = None

----------------------------------------------------------------------------
(* Properties of the registry and the dispatcher *)

\* the register and unregister calls on a name among the first n calls
RegistryCalls(name, n) ==
  {i \in 1..n :
     /\ calls[i].op \in {"register_custom_function",
                         "unregister_custom_function"}
     /\ calls[i].name = name}

\* the last of them, 0 when there is none
LastRegistryCall(name, n) ==
  IF RegistryCalls(name, n) = {} THEN 0
  ELSE CHOOSE i \in RegistryCalls(name, n) :
         \A j \in RegistryCalls(name, n) : j <= i

\* the name is registered after the first n calls, going by the calls made
RegisteredAfter(name, n) ==
  /\ LastRegistryCall(name, n) # 0
  /\ calls[LastRegistryCall(name, n)].op = "register_custom_function"

\* call i invokes a strategy by name: custom_vote, or aggregate with the
\* custom method and a non-empty name
Invocation(i) ==
  \/ calls[i].op = "custom_vote"
  \/ /\ calls[i].op = "aggregate"
     /\ calls[i].method = CUSTOM
     /\ calls[i].custom_function_name # None
     /\ calls[i].custom_function_name.str # ""

NameInvoked(i) ==
  IF calls[i].op = "custom_vote" THEN calls[i].function_name
  ELSE calls[i].custom_function_name.str

\* C13: aggregate with the custom method and no strategy name (None or the
\* empty string) raises the missing-name error and invokes no registered
\* function, whatever the registry holds, an entry under the empty name
\* included.
C13_MissingNameBeforeLookup ==
  \A i \in 1..Len(calls) :
    ( /\ calls[i].op = "aggregate"
      /\ calls[i].method = CUSTOM
      /\ calls[i].custom_function_name \in {None, StrArg("")} )
      => /\ calls[i].outcome
              = Raise("custom_function_name required for CUSTOM voting method")
         /\ calls[i].invoked = <<>>

\* a strategy that returns a result is registered under the empty name, and
\* aggregate is then called with the custom method and the empty name
C13_Witness ==
  /\ Len(calls) >= 2
  /\ DictHas(custom_functions, "")
  /\ IsInstanceVotingResult(CallFunction(DictGet(custom_functions, ""),
                                         evaluations))
  /\ calls[Len(calls)].op = "aggregate"
  /\ calls[Len(calls)].method = CUSTOM
  /\ calls[Len(calls)].custom_function_name = StrArg("")
  /\ ~calls[Len(calls)].outcome.ok

\* C14 as claimed: a method outside the six is always rejected with the
\* unknown-method error, by aggregate (which neither returns a result nor
\* returns nothing) and by calculate_confidence.
C14_UnknownMethodRejected ==
  \A i \in 1..Len(calls) :
    /\ ( /\ calls[i].op = "aggregate"
         /\ calls[i].method \notin BuiltinMethods \cup {CUSTOM} )
         => /\ ~calls[i].outcome.ok
            /\ calls[i].outcome.error
                 = "Unknown voting method: " \o calls[i].method
    /\ ( /\ calls[i].op = "calculate_confidence"
         /\ calls[i].voting_result.method \notin BuiltinMethods \cup {CUSTOM} )
         => /\ ~calls[i].outcome.ok
            /\ calls[i].outcome.error
                 = "Unknown voting method: " \o calls[i].voting_result.method

\* C16: invoking a name whose last registry call was a register calls the
\* function registered then and, the value being a VotingResult, returns
\* it; invoking a name that was unregistered since (or never registered)
\* raises the not-registered error naming it and calls no function.
C16_RegisterInvokeUnregister ==
  \A i \in 1..Len(calls) :
    Invocation(i) =>
      LET name == NameInvoked(i)
          last == LastRegistryCall(name, i - 1)
      IN  IF RegisteredAfter(name, i - 1)
          THEN LET value == CallFunction(calls[last].function, evaluations)
               IN  /\ calls[i].invoked = <<calls[last].function>>
                   /\ IsInstanceVotingResult(value)
                        => calls[i].outcome = Return(value)
          ELSE /\ calls[i].invoked = <<>>
               /\ calls[i].outcome
                    = Raise("Custom function '" \o name \o "' not registered")

\* register test_custom, invoke it and get the function's result,
\* unregister it, invoke it again and get the error
C16_Witness ==
  /\ Len(calls) = 4
  /\ calls[1].op = "register_custom_function"
  /\ calls[1].name = "test_custom"
  /\ calls[1].function = "custom_function"
  /\ calls[2].op = "custom_vote"
  /\ calls[2].function_name = "test_custom"
  /\ calls[2].outcome.ok
  /\ calls[2].outcome.result.winner = "response_1"
  /\ calls[3].op = "unregister_custom_function"
  /\ calls[3].name = "test_custom"
  /\ calls[4].op = "custom_vote"
  /\ calls[4].function_name = "test_custom"
  /\ calls[4].outcome
       = Raise("Custom function 'test_custom' not registered")

\* C17: get_custom_functions returns, each once, exactly the names whose
\* most recent registry call up to then was a register; the list returned
\* keeps that value whatever is registered or unregistered later; and the
\* registry holds exactly the names whose most recent registry call was a
\* register, whatever invocations and aggregate calls were made in between.
C17_ListIsRegisteredNames ==
  /\ \A i \in 1..Len(calls) :
       calls[i].op = "get_custom_functions" =>
         LET names == calls[i].names
         IN  /\ \A a \in 1..Len(names) : \A b \in 1..Len(names) :
                  names[a] = names[b] => a = b
             /\ Range(names)
                  = {n \in StrategyNames : RegisteredAfter(n, i - 1)}
  /\ Range(DictKeys(custom_functions))
       = {n \in StrategyNames : RegisteredAfter(n, Len(calls))}
  /\ Len(custom_functions) = Cardinality(Range(DictKeys(custom_functions)))

\* a name is registered and invoked through aggregate, the names are
\* listed, and the name is unregistered afterwards: the list still holds
\* it, the registry no longer does
C17_Witness ==
  /\ Len(calls) = 4
  /\ calls[1].op = "register_custom_function"
  /\ calls[2].op = "aggregate"
  /\ calls[2].outcome.ok
  /\ calls[3].op = "get_custom_functions"
  /\ calls[3].names = <<calls[1].name>>
  /\ calls[4].op = "unregister_custom_function"
  /\ calls[4].name = calls[1].name
  /\ custom_functions = <<>>

\* C18: a register under a name that is registered with another function
\* does not fail; from then on, while no other registry call is made on the
\* name, every invocation of it calls the function registered last and the
\* list of registered names holds the name once.
C18_LastRegistrationWins ==
  \A i \in 1..Len(calls) :
    ( /\ calls[i].op = "register_custom_function"
      /\ RegisteredAfter(calls[i].name, i - 1)
      /\ calls[LastRegistryCall(calls[i].name, i - 1)].function
           # calls[i].function )
      => /\ calls[i].outcome = Return(None)
         /\ \A j \in (i + 1)..Len(calls) :
              LastRegistryCall(calls[i].name, j - 1) = i =>
                /\ ( Invocation(j) /\ NameInvoked(j) = calls[i].name )
                     => calls[j].invoked = <<calls[i].function>>
                /\ calls[j].op = "get_custom_functions"
                     => Cardinality({a \in 1..Len(calls[j].names) :
                                      calls[j].names[a] = calls[i].name}) = 1

\* test_custom is registered with custom_function and then with
\* simple_winner; invoking it returns simple_winner's result, and the list of
\* names holds it once
C18_Witness ==
  /\ Len(calls) = 4
  /\ calls[1].op = "register_custom_function"
  /\ calls[1].name = "test_custom"
  /\ calls[1].function = "custom_function"
  /\ calls[2].op = "register_custom_function"
  /\ calls[2].name = "test_custom"
  /\ calls[2].function = "simple_winner"
  /\ calls[3].op = "custom_vote"
  /\ calls[3].function_name = "test_custom"
  /\ calls[3].invoked = <<"simple_winner">>
  /\ calls[3].outcome = Return(CallFunction("simple_winner", evaluations))
  /\ calls[4].op = "get_custom_functions"
  /\ calls[4].names = <<"test_custom">>

\* C19: a call of unregister_custom_function returns (None) and never
\* raises; when the name is not registered the registry is left as it was;
\* when it is registered, the name is removed and every other entry keeps
\* its function and its place.
C19_UnregisterFrame ==
  [][( /\ Len(calls') = Len(calls) + 1
       /\ calls'[Len(calls')].op = "unregister_custom_function" )
       => LET name == calls'[Len(calls')].name
          IN  /\ calls'[Len(calls')].outcome = Return(None)
              /\ IF ~DictHas(custom_functions, name)
                 THEN custom_functions' = custom_functions
                 ELSE /\ ~DictHas(custom_functions', name)
                      /\ custom_functions'
                           = SelectSeq(custom_functions,
                                       LAMBDA entry : entry.name # name)
                      /\ \A n \in StrategyNames \ {name} :
                           /\ DictHas(custom_functions', n)
                                = DictHas(custom_functions, n)
                           /\ DictHas(custom_functions, n)
                                => DictGet(custom_functions', n)
                                     = DictGet(custom_functions, n)]_vars

\* two names are registered, one is unregistered twice: the second call
\* finds it absent, and the other entry is still there
C19_Witness ==
  /\ Len(calls) = 4
  /\ calls[1].op = "register_custom_function"
  /\ calls[2].op = "register_custom_function"
  /\ calls[1].name # calls[2].name
  /\ calls[3].op = "unregister_custom_function"
  /\ calls[3].name = calls[1].name
  /\ calls[4] = calls[3]
  /\ custom_functions
       = <<[name |-> calls[2].name, function |-> calls[2].function]>>

\* C20: when the function registered under the invoked name returns a value
\* that is not a VotingResult, custom_vote, called directly or through
\* aggregate, raises the must-return-a-VotingResult error naming the
\* strategy, returns nothing, and leaves the registry entry as it was.
C20_MalformedResultRejected ==
  \A i \in 1..Len(calls) :
    ( /\ Invocation(i)
      /\ RegisteredAfter(NameInvoked(i), i - 1)
      /\ ~IsInstanceVotingResult(
            CallFunction(calls[LastRegistryCall(NameInvoked(i), i - 1)].function,
                         evaluations)) )
      => LET name == NameInvoked(i)
             function == calls[LastRegistryCall(name, i - 1)].function
         IN  /\ ~calls[i].outcome.ok
             /\ "result" \notin DOMAIN calls[i].outcome
             /\ calls[i].outcome.error
                  = "Custom function '" \o name
                      \o "' must return a VotingResult object"
             /\ i = Len(calls)
                  => /\ DictHas(custom_functions, name)
                     /\ DictGet(custom_functions, name) = function

\* bad_method is registered under test_custom and invoked directly and
\* through aggregate; both calls raise, and the entry is still registered
C20_Witness ==
  /\ Len(calls) = 3
  /\ calls[1].op = "register_custom_function"
  /\ calls[1].name = "test_custom"
  /\ calls[1].function = "bad_method"
  /\ calls[2].op = "custom_vote"
  /\ calls[2].function_name = "test_custom"
  /\ calls[2].invoked = <<"bad_method">>
  /\ ~calls[2].outcome.ok
  /\ calls[3].op = "aggregate"
  /\ calls[3].custom_function_name = StrArg("test_custom")
  /\ calls[3].invoked = <<"bad_method">>
  /\ ~calls[3].outcome.ok
  /\ custom_functions = <<[name |-> "test_custom", function |-> "bad_method"]>>

\* ------------------------------------------------------------------
\* C21: every VotingResult returned by aggregate, a registered custom
\* strategy's result included, names as winner a response that at least
\* one input evaluation scores, and as method the kind that was requested.
\* The custom method checks only the type of what the function returns.
C21_ResultNamesInputAndMethod ==
  \A i \in 1..Len(calls) :
     (/\ calls[i].op = "aggregate"
      /\ calls[i].outcome.ok
      /\ calls[i].outcome.result # None)
     => /\ calls[i].outcome.result.winner \in ScoredIds(evaluations)
        /\ calls[i].outcome.result.method = calls[i].method

----------------------------------------------------------------------------
(* Properties of verdict assembly *)

\* create_verdict returned a verdict for a result of one of `methods`
VerdictFor(methods) ==
  /\ verdict # None
  /\ verdict.method \in methods
  /\ verdict.outcome.ok

RECURSIVE VotesCast(_)
VotesCast(vote_counts) ==
  IF DOMAIN vote_counts = {} THEN 0
  ELSE LET r == CHOOSE x \in DOMAIN vote_counts : TRUE
       IN  vote_counts[r]
             + VotesCast([x \in DOMAIN vote_counts \ {r} |-> vote_counts[x]])

\* t and s hold the largest and the second largest score of the map
TopTwo(scores, t, s) ==
  /\ t # s
  /\ \A r \in DOMAIN scores : ~RatGt(scores[r], scores[t])
  /\ \A r \in DOMAIN scores \ {t} : ~RatGt(scores[r], scores[s])

\* C25: the confidence of a majority result is the winner's vote count
\* divided by the total of vote_counts, and 0 when that total is 0; for a
\* majority result of aggregate the total is the number of jurors; vote
\* counts {resp1: 3, resp2: 1} with winner resp1 give exactly 3/4.
C25_MajorityConfidence ==
  VerdictFor({MAJORITY}) =>
    LET result == verdict.voting_result
        vote_counts == result.vote_counts
        total == VotesCast(vote_counts)
        winner_votes == IF result.winner \in DOMAIN vote_counts
                        THEN vote_counts[result.winner] ELSE 0
        confidence == verdict.outcome.result.final_verdict.confidence
    IN  /\ total = 0 => confidence.num = 0
        /\ total > 0 => /\ confidence.den > 0
                        /\ confidence.num * total = winner_votes * confidence.den
        /\ verdict.produced_by = "aggregate"
             => total = Len(verdict.juror_evaluations)
        /\ (/\ DOMAIN vote_counts = ResponseIds
            /\ vote_counts["resp1"] = 3
            /\ vote_counts["resp2"] = 1
            /\ result.winner = "resp1")
             => confidence = [num |-> 3, den |-> 4]

\* the example: four votes, three of them for the winner
C25_Witness ==
  /\ VerdictFor({MAJORITY})
  /\ DOMAIN verdict.voting_result.vote_counts = ResponseIds
  /\ verdict.voting_result.vote_counts["resp1"] = 3
  /\ verdict.voting_result.vote_counts["resp2"] = 1
  /\ verdict.voting_result.winner = "resp1"
  /\ verdict.outcome.result.final_verdict.confidence = [num |-> 3, den |-> 4]

\* C26: for an average, weighted, ranked or consensus result the confidence
\* is 1 when the score map has fewer than two entries; otherwise it is
\* min((top - second) / top, 1) when top > 0 and 1 when top <= 0, so a tie
\* for first place with top > 0 gives 0, and scores {8, 6} give 1/4.
C26_GapConfidence ==
  VerdictFor(ScoreMethods) =>
    LET scores == ScoreMapOf(verdict.voting_result)
        confidence == verdict.outcome.result.final_verdict.confidence
        One == [num |-> 1, den |-> 1]
    IN  /\ Cardinality(DOMAIN scores) < 2 => confidence = One
        /\ Cardinality(DOMAIN scores) >= 2 =>
             \A t, s \in DOMAIN scores :
                TopTwo(scores, t, s) =>
                  LET top == scores[t]
                      second == scores[s]
                      ratio == RatDiv(RatSub(top, second), top)
                  IN  /\ top.num > 0 =>
                           confidence = IF RatGt(ratio, One) THEN One ELSE ratio
                      /\ top.num <= 0 => confidence = One
                      /\ (top.num > 0 /\ top = second) => confidence.num = 0
        /\ (\E t, s \in DOMAIN scores :
              /\ DOMAIN scores = {t, s}
              /\ scores[t] = [num |-> 8, den |-> 1]
              /\ scores[s] = [num |-> 6, den |-> 1])
             => confidence = [num |-> 1, den |-> 4]

\* the example: scores 8 and 6
C26_Witness ==
  /\ VerdictFor({AVERAGE})
  /\ DOMAIN verdict.voting_result.average_scores = ResponseIds
  /\ verdict.voting_result.average_scores["resp1"] = [num |-> 8, den |-> 1]
  /\ verdict.voting_result.average_scores["resp2"] = [num |-> 6, den |-> 1]
  /\ verdict.outcome.result.final_verdict.confidence = [num |-> 1, den |-> 4]

C28_WinnerMargin ==
  VerdictFor(BuiltinMethods \cup {CUSTOM}) =>
    LET result == verdict.voting_result
        margin == verdict.outcome.result.final_verdict.winner_margin
        scores == IF result.method = CUSTOM THEN result.custom_scores
                  ELSE ScoreMapOf(result)
    IN  /\ result.method = MAJORITY => margin = None
        /\ (result.method # MAJORITY /\ scores = None) => margin = None
        /\ (result.method # MAJORITY /\ scores # None) =>
             /\ Cardinality(DOMAIN scores) < 2 => margin = None
             /\ Cardinality(DOMAIN scores) >= 2 =>
                  /\ margin # None
                  /\ margin.num >= 0
                  /\ \A t, s \in DOMAIN scores :
                        TopTwo(scores, t, s) =>
                          /\ margin.den * (scores[t].num * scores[s].den
                                            - scores[s].num * scores[t].den)
                               = margin.num * scores[t].den * scores[s].den

\* a margin above 1 next to a confidence below 1: the margin is not normalized
C28_Witness ==
  /\ VerdictFor(ScoreMethods)
  /\ verdict.outcome.result.final_verdict.winner_margin # None
  /\ verdict.outcome.result.final_verdict.winner_margin.num
       > verdict.outcome.result.final_verdict.winner_margin.den
  /\ verdict.outcome.result.final_verdict.confidence.num
       < verdict.outcome.result.final_verdict.confidence.den

----------------------------------------------------------------------------
(* Properties of the registry under threads *)

\* C22: registry lookups and mutations exclude one another, so a
\* custom_vote of a name running while another thread registers or
\* unregisters that name ends in one of two ways only: it returns the
\* validated result of a function registered under the name, or it raises
\* the error of an unregistered name (a function whose result is not a
\* VotingResult raises the error of C20).  No other error is raised.
C22_InvokeOutcomes ==
  \A i \in 1..Len(calls) :
     calls[i].op = "custom_vote" =>
       \/ /\ calls[i].outcome.ok
          /\ IsInstanceVotingResult(calls[i].outcome.result)
          /\ \E j \in 1..(i - 1) :
                /\ calls[j].op = "register_custom_function"
                /\ calls[j].name = calls[i].function_name
                /\ calls[i].invoked = <<calls[j].function>>
       \/ /\ ~calls[i].outcome.ok
          /\ calls[i].outcome.error \in
               {"Custom function '" \o calls[i].function_name
                  \o "' not registered",
                "Custom function '" \o calls[i].function_name
                  \o "' must return a VotingResult object"}

----------------------------------------------------------------------------
(* Properties of the evaluation engine *)

\* the position of a juror in config.jurors
JurorIndex(juror_name) ==
  CHOOSE i \in 1..Len(JurorNames) : JurorNames[i] = juror_name

\* the jurors whose call returned scores
Successful == {i \in 1..Len(JurorConfigs) : juror_calls[i].status = "succeeded"}

\* evaluate went through the collection of the jurors and ended
RoundEnded ==
  /\ jury.pc = "done"
  /\ jury.response_mapping # None

\* C23: with parallel execution the evaluations handed to the aggregation
\* are in the order of config.jurors, whatever the order in which the
\* jurors' calls complete.
C23_AggregatedInJurorOrder ==
  (jury.parallel_execution /\ RoundEnded) =>
    \A a, b \in 1..Len(verdict.juror_evaluations) :
       a < b => JurorIndex(verdict.juror_evaluations[a].juror_name)
                  < JurorIndex(verdict.juror_evaluations[b].juror_name)

\* C24: in both modes the failure of some jurors does not keep the engine
\* from collecting the others: when at least one juror succeeds, the
\* aggregation runs over exactly the evaluations of the jurors that
\* succeeded, each with its own name, scores and weight; when every juror
\* fails, evaluate raises the error that all jurors failed and aggregates
\* nothing.
C24_PartialFailureTolerated ==
  RoundEnded =>
    LET juror_evaluations == verdict.juror_evaluations
        all_failed == Raise("All jurors failed to complete evaluation")
    IN  /\ Successful = {} =>
             /\ verdict.outcome = all_failed
             /\ verdict.voting_result = None
        /\ Successful # {} =>
             /\ verdict.outcome # all_failed
             /\ Len(juror_evaluations) = Cardinality(Successful)
             /\ \A i \in Successful :
                  \E k \in 1..Len(juror_evaluations) :
                     /\ juror_evaluations[k].juror_name = JurorNames[i]
                     /\ juror_evaluations[k].response_scores = juror_calls[i].scores
                     /\ juror_evaluations[k].juror_weight = JurorConfigs[i].weight
             /\ jury.voting_method \in BuiltinMethods =>
                  /\ verdict.outcome.ok
                  /\ verdict.outcome.result.summary.total_jurors
                       = Cardinality(Successful)
                  /\ \E seed \in ReplyHashSeeds :
                       Return(verdict.voting_result)
                         = aggregate(juror_evaluations, jury.voting_method, seed)

\* the sequential loop: the first juror failed, the second was collected
\* and the verdict rests on its evaluation alone
C24_Witness ==
  /\ RoundEnded
  /\ ~jury.parallel_execution
  /\ juror_calls[1].status = "failed"
  /\ juror_calls[2].status = "succeeded"
  /\ verdict.outcome.ok
  /\ Len(verdict.juror_evaluations) = 1
  /\ verdict.juror_evaluations[1].juror_name = JurorNames[2]

\* C29: the winner of every verdict that evaluate returns is a key of the
\* verdict's responses, for every reply of a juror that is accepted and
\* with or without explicit response_ids.
C29_WinnerIsAResponse ==
  (RoundEnded /\ verdict.outcome.ok) =>
    verdict.outcome.result.final_verdict.winner
      \in DOMAIN verdict.outcome.result.responses

\* C30: a juror's evaluation with max_retries = k invokes the model at most
\* k times, ends at the first attempt whose parsed scores cover every
\* candidate and every criterion, and raises JurorException exactly when
\* all k attempts failed; with k = 0 it makes no attempt and raises, so
\* every juror of such a jury fails and evaluate raises that all failed.
C30_JurorStep ==
  \A i \in 1..Len(JurorConfigs) :
     LET before == juror_calls[i]
         after == juror_calls'[i]
     IN  /\ after.invocations <= jury.max_retries
         /\ after.invocations \in {before.invocations, before.invocations + 1}
         /\ before.status # "running" => after = before
         /\ after.status = "succeeded" =>
              /\ \A r \in ResponseIds :
                   /\ r \in DOMAIN after.scores
                   /\ \A c \in Criteria : c \in DOMAIN after.scores[r]
              /\ after.invocations >= 1
         /\ (before.status = "running" /\ after.status = "succeeded")
              => after.invocations = before.invocations + 1
         /\ (before.status = "running" /\ after.status = "failed")
              => /\ before.invocations = jury.max_retries
                 /\ after.invocations = before.invocations
         /\ (before.status = "running"
               /\ before.invocations = jury.max_retries)
              => after.invocations = before.invocations
         /\ jury.max_retries = 0 =>
              /\ after.invocations = 0
              /\ after.status # "succeeded"
              /\ jury'.pc = "done" /\ jury'.response_mapping # None
                   => verdict'.outcome
                        = Raise("All jurors failed to complete evaluation")

C30_RetriesBounded == [][C30_JurorStep]_vars

\* a juror that failed once and succeeded on its second and last attempt
C30_Witness ==
  \E i \in 1..Len(JurorConfigs) :
     /\ jury.max_retries = 2
     /\ juror_calls[i].status = "succeeded"
     /\ juror_calls[i].invocations = 2

====
